---- MODULE Spec2Model ----
\* Bridge-MCP: the service registry (enabled_services), the tool catalog
\* aggregator (list_tools), the dispatcher (call_tool) and the provider
\* handlers of src/src/bridge_mcp_server.py and src/src/services/*.py.
\*
\* Python values are modelled as follows.
\*   - A dict is a sequence of [k, v] pairs in insertion order.
\*   - A text is a sequence of segments: the literal parts of an f-string and
\*     each interpolated value are separate segments, so "the text contains
\*     the tool name" is "some segment is the tool name".
\*   - A content block is a record [type, text, data, mimeType].
\*   - A function that may raise returns a record with a `raised` field; the
\*     caller propagates it unless the source has an except clause for it.
EXTENDS Integers, Sequences, FiniteSets, TLC

\* ---------------------------------------------------------------- state

VARIABLES
    pc,                          \* where the process is (see Init)
    JIRA_PERSONAL_ACCESS_TOKEN,  \* jira_service.py:30, truthiness of the env value
    GITLAB_AVAILABLE,            \* gitlab_service.py:14-19
    enabled_services,            \* bridge_mcp_server.py:59
    jira_client,                 \* jira_service.py:34
    gitlab_client,               \* gitlab_service.py:37
    confluence_client,           \* confluence_service.py:31
    exit_code,                   \* process exit status, NoExit while running
    lastOp,                      \* the operation that ran last
    lastInit,                    \* what the last initialize_services run did
    listed,                      \* value returned by the last list_tools since the last
                                 \* initialize_services, and whether it was a repeated call
    lastCall,                    \* what the last call_tool did and returned
    media                        \* SpecMedia: what the get_issue_media call met upstream
                                 \* (the issue's attachments, the outcome of each
                                 \* download) and the URLs it asked the downloader for

vars == <<pc, JIRA_PERSONAL_ACCESS_TOKEN, GITLAB_AVAILABLE, enabled_services,
          jira_client, gitlab_client, confluence_client, exit_code, lastOp,
          lastInit, listed, lastCall, media>>

None == "None"
NoExit == "running"

\* ---------------------------------------------------------------- dicts

\* C10's mutant: a lookup that reads a missing key as true.
DictHasKey(d, k) == \E i \in DOMAIN d : d[i].k = k

DictGet_defaultTrue(d, k, default) ==
    IF DictHasKey(d, k)
    THEN d[CHOOSE i \in DOMAIN d : d[i].k = k].v
    ELSE TRUE

\* d.get(k, default)
DictHas(d, k) == \E i \in DOMAIN d : d[i].k = k

DictGet(d, k, default) ==
    IF DictHas(d, k)
    THEN d[CHOOSE i \in DOMAIN d : d[i].k = k].v
    ELSE default

\* d[k] = v : an existing key keeps its position, a new key goes last
DictSet(d, k, v) ==
    IF DictHas(d, k)
    THEN [i \in DOMAIN d |-> IF d[i].k = k THEN [k |-> k, v |-> v] ELSE d[i]]
    ELSE Append(d, [k |-> k, v |-> v])

\* [k for k, v in d.items() if v]
RECURSIVE TrueKeys(_)
TrueKeys(d) ==
    IF d = <<>> THEN <<>>
    ELSE (IF Head(d).v THEN <<Head(d).k>> ELSE <<>>) \o TrueKeys(Tail(d))

\* any(d.values())
AnyValue(d) == \E i \in DOMAIN d : d[i].v

\* sep.join(items), as segments
RECURSIVE Join(_, _)
Join(items, sep) ==
    IF items = <<>> THEN <<>>
    ELSE IF Len(items) = 1 THEN <<items[1]>>
    ELSE <<items[1], sep>> \o Join(Tail(items), sep)

\* ---------------------------------------------------------------- content

TextContent(segments) ==
    [type |-> "text", text |-> segments, data |-> <<>>, mimeType |-> ""]

ImageContent(data, mimeType) ==
    [type |-> "image", text |-> <<>>, data |-> data, mimeType |-> mimeType]

Tool(name) == [name |-> name]

\* ---------------------------------------------------------------- providers' setup

\* Outcome of JIRA(...) followed by client.server_info()
JiraProbes == {"ok", "JIRAError", "Exception"}
\* Outcome of gitlab.Gitlab(...) followed by gl.auth()
GitlabProbes == {"ok", "GitlabAuthenticationError", "Exception"}

\* C7's mutant: only JIRAError is caught, so any other exception escapes.
init_jira_client_narrowExcept(client, probe) ==
    IF ~JIRA_PERSONAL_ACCESS_TOKEN
    THEN [ret |-> None, client |-> client, raised |-> FALSE]
    ELSE CASE probe = "ok" ->
                [ret |-> "JIRA", client |-> "JIRA", raised |-> FALSE]
           [] probe = "JIRAError" ->
                [ret |-> None, client |-> client, raised |-> FALSE]
           [] OTHER ->
                [ret |-> None, client |-> client, raised |-> TRUE]

\* C29's mutant: the new client is returned but not stored in the module global.
init_jira_client_notStored(client, probe) ==
    IF ~JIRA_PERSONAL_ACCESS_TOKEN
    THEN [ret |-> None, client |-> client, raised |-> FALSE]
    ELSE CASE probe = "ok" ->
                [ret |-> "JIRA", client |-> client, raised |-> FALSE]
           [] probe = "JIRAError" ->
                [ret |-> None, client |-> client, raised |-> FALSE]
           [] OTHER ->
                [ret |-> None, client |-> client, raised |-> FALSE]

init_jira_client(client, probe) ==
    IF ~JIRA_PERSONAL_ACCESS_TOKEN
    THEN [ret |-> None, client |-> client, raised |-> FALSE]
    ELSE CASE probe = "ok" ->
                [ret |-> "JIRA", client |-> "JIRA", raised |-> FALSE]
           [] probe = "JIRAError" ->
                [ret |-> None, client |-> client, raised |-> FALSE]
           [] OTHER ->
                [ret |-> None, client |-> client, raised |-> FALSE]

init_gitlab_client(client, gitlab_token, probe) ==
    IF ~GITLAB_AVAILABLE
    THEN [ret |-> None, client |-> client, raised |-> FALSE]
    ELSE IF ~gitlab_token
    THEN [ret |-> None, client |-> client, raised |-> FALSE]
    ELSE CASE probe = "ok" ->
                [ret |-> "Gitlab", client |-> "Gitlab", raised |-> FALSE]
           [] probe = "GitlabAuthenticationError" ->
                [ret |-> None, client |-> client, raised |-> FALSE]
           [] OTHER ->
                [ret |-> None, client |-> client, raised |-> FALSE]

\* CONFLUENCE_API_TOKEN and CONFLUENCE_USERNAME (confluence_service.py:27-28) are
\* read once at import; nothing but the branch taken here depends on them, so
\* their truthiness is an input of each run rather than a state variable.
init_confluence_client(client, api_token, username) ==
    IF ~api_token \/ ~username
    THEN [ret |-> None, client |-> client, raised |-> FALSE]
    ELSE [ret |-> None, client |-> client, raised |-> FALSE]

\* The environment one initialize_services run meets.
InitEnvs ==
    [jira : JiraProbes, gitlab_token : BOOLEAN, gitlab : GitlabProbes,
     confluence_api_token : BOOLEAN, confluence_username : BOOLEAN]

initialize_services(es, jc, gc, cc, env) ==
    LET j == init_jira_client(jc, env.jira)
        es1 == DictSet(es, "jira", j.ret # None)
        g == init_gitlab_client(gc, env.gitlab_token, env.gitlab)
        es2 == DictSet(es1, "gitlab", g.ret # None)
        c == init_confluence_client(cc, env.confluence_api_token,
                                    env.confluence_username)
        es3 == DictSet(es2, "confluence", c.ret # None)
    IN  IF j.raised
        THEN [enabled_services |-> es, jira_client |-> j.client,
              gitlab_client |-> gc, confluence_client |-> cc,
              attempts |-> <<"jira">>, raised |-> TRUE]
        ELSE IF g.raised
        THEN [enabled_services |-> es1, jira_client |-> j.client,
              gitlab_client |-> g.client, confluence_client |-> cc,
              attempts |-> <<"jira", "gitlab">>, raised |-> TRUE]
        ELSE IF c.raised
        THEN [enabled_services |-> es2, jira_client |-> j.client,
              gitlab_client |-> g.client, confluence_client |-> c.client,
              attempts |-> <<"jira", "gitlab", "confluence">>, raised |-> TRUE]
        ELSE [enabled_services |-> es3, jira_client |-> j.client,
              gitlab_client |-> g.client, confluence_client |-> c.client,
              attempts |-> <<"jira", "gitlab", "confluence">>, raised |-> FALSE]

\* ---------------------------------------------------------------- catalogs

get_jira_tools ==
    <<Tool("get_jira_issue"), Tool("search_jira_issues"), Tool("get_issue_comments"),
      Tool("get_issue_attachments"), Tool("get_issue_media")>>

get_gitlab_tools ==
    <<Tool("get_gitlab_project"), Tool("list_gitlab_projects"), Tool("get_merge_request"),
      Tool("list_merge_requests"), Tool("list_pipelines"), Tool("get_pipeline"),
      Tool("list_gitlab_issues"), Tool("get_gitlab_issue")>>

get_confluence_tools == <<>>

\* C4's mutant: GitLab's catalog is appended before Jira's.
list_tools_gitlabFirst(es) ==
    (IF DictGet(es, "gitlab", FALSE) THEN get_gitlab_tools ELSE <<>>)
    \o (IF DictGet(es, "jira", FALSE) THEN get_jira_tools ELSE <<>>)
    \o (IF DictGet(es, "confluence", FALSE) THEN get_confluence_tools ELSE <<>>)

\* C28's mutant: GitLab's catalog is listed whatever its flag.
list_tools_ignoreGitlabFlag(es) ==
    (IF DictGet(es, "jira", FALSE) THEN get_jira_tools ELSE <<>>)
    \o get_gitlab_tools
    \o (IF DictGet(es, "confluence", FALSE) THEN get_confluence_tools ELSE <<>>)

list_tools(es) ==
    (IF DictGet(es, "jira", FALSE) THEN get_jira_tools ELSE <<>>)
    \o (IF DictGet(es, "gitlab", FALSE) THEN get_gitlab_tools ELSE <<>>)
    \o (IF DictGet(es, "confluence", FALSE) THEN get_confluence_tools ELSE <<>>)

\* ---------------------------------------------------------------- arguments

\* The `arguments` value of a call: a mapping with the keys in `keys`, or (when
\* is_mapping is false) a value with no .get, such as None.
Arguments(keys, issue_key, jql, max_files, project_id, iid) ==
    [is_mapping |-> TRUE, keys |-> keys, issue_key |-> issue_key, jql |-> jql,
     max_files |-> max_files, project_id |-> project_id, iid |-> iid]

NotAMapping ==
    [is_mapping |-> FALSE, keys |-> {}, issue_key |-> "", jql |-> "",
     max_files |-> 0, project_id |-> "", iid |-> 0]

\* arguments.get(key): the value, or None.  Strings only.
ArgStr(arguments, key) ==
    IF key \in arguments.keys
    THEN CASE key = "issue_key" -> arguments.issue_key
           [] key = "jql" -> arguments.jql
           [] OTHER -> arguments.project_id
    ELSE None

\* Python truthiness of a string argument fetched by ArgStr
TruthyStr(v) == v # None /\ v # ""

\* arguments.get("max_files", 10)
DefaultMaxFiles == 10

ArgMaxFiles(arguments) ==
    IF "max_files" \in arguments.keys THEN arguments.max_files ELSE DefaultMaxFiles

\* truthiness of arguments.get("mr_iid") / ("pipeline_id") / ("issue_iid")
TruthyIid(arguments, key) == key \in arguments.keys /\ arguments.iid # 0

\* What a try-body produced: a return value, or an exception with its message;
\* `downloads` lists the URLs it passed to download_attachment, in call order.
Return(blocks, failure) ==
    [ret |-> blocks, raised |-> FALSE, exc |-> "", msg |-> "", failure |-> failure,
     downloads |-> <<>>]

Raise(exc, msg, failure) ==
    [ret |-> <<>>, raised |-> TRUE, exc |-> exc, msg |-> msg, failure |-> failure,
     downloads |-> <<>>]

AttributeErrorMsg == "'NoneType' object has no attribute 'get'"

\* ---------------------------------------------------------------- media helpers

\* mime_type.lower(), on the MIME strings the model draws from
Lower(mime_type) ==
    CASE mime_type = "IMAGE/PNG" -> "image/png"
      [] mime_type = "image/PNG" -> "image/png"
      [] mime_type = "Video/MP4" -> "video/mp4"
      [] OTHER -> mime_type

\* C15's mutant: the image test accepts every retained attachment, so a video
\* takes the image path.
StartsWithImage_any(mime_type) == TRUE

\* mime_type.startswith("image/"), on the MIME strings the model draws from
StartsWithImage(mime_type) ==
    mime_type \in {"image/png", "image/jpeg", "image/jpg", "image/gif",
                   "image/webp", "image/svg+xml", "image/bmp", "image/PNG"}

\* C25's mutant: the mapping has no entry for the alias image/jpg.
get_attachment_media_type_noAlias(mime_type) ==
    LET m == Lower(mime_type)
    IN  CASE m = "image/png" -> "image/png"
          [] m = "image/jpeg" -> "image/jpeg"
          [] m = "image/gif" -> "image/gif"
          [] m = "image/webp" -> "image/webp"
          [] m = "image/svg+xml" -> "image/svg+xml"
          [] OTHER -> None

get_attachment_media_type(mime_type) ==
    LET m == Lower(mime_type)
    IN  CASE m = "image/png" -> "image/png"
          [] m = "image/jpeg" -> "image/jpeg"
          [] m = "image/jpg" -> "image/jpeg"
          [] m = "image/gif" -> "image/gif"
          [] m = "image/webp" -> "image/webp"
          [] m = "image/svg+xml" -> "image/svg+xml"
          [] OTHER -> None

supported_types ==
    {"image/png", "image/jpeg", "image/jpg", "image/gif",
     "image/webp", "image/svg+xml",
     "video/mp4", "video/quicktime", "video/x-msvideo", "video/webm"}

\* C17's mutant: the MIME string is compared as it is, without lower().
is_supported_media_exact(mime_type) == mime_type \in supported_types

\* Raises AttributeError when mime_type is None (None has no .lower).
is_supported_media(mime_type) == Lower(mime_type) \in supported_types

\* base64.b64encode over a sequence of bytes (0..255): a sequence of the
\* alphabet's indices 0..63, and Pad for each '='.
Pad == 64

\* C16's mutant: only complete 3-byte groups are encoded, the tail is dropped.
RECURSIVE b64encode_wholeGroups(_)
b64encode_wholeGroups(bytes) ==
    IF Len(bytes) < 3 THEN <<>>
    ELSE <<bytes[1] \div 4, (bytes[1] % 4) * 16 + bytes[2] \div 16,
           (bytes[2] % 16) * 4 + bytes[3] \div 64, bytes[3] % 64>>
         \o b64encode_wholeGroups(SubSeq(bytes, 4, Len(bytes)))

RECURSIVE b64encode(_)
b64encode(bytes) ==
    IF bytes = <<>> THEN <<>>
    ELSE IF Len(bytes) = 1
    THEN <<bytes[1] \div 4, (bytes[1] % 4) * 16, Pad, Pad>>
    ELSE IF Len(bytes) = 2
    THEN <<bytes[1] \div 4, (bytes[1] % 4) * 16 + bytes[2] \div 16,
           (bytes[2] % 16) * 4, Pad>>
    ELSE <<bytes[1] \div 4, (bytes[1] % 4) * 16 + bytes[2] \div 16,
           (bytes[2] % 16) * 4 + bytes[3] \div 64, bytes[3] % 64>>
         \o b64encode(SubSeq(bytes, 4, Len(bytes)))

\* Outcome of requests.get(...) + raise_for_status() for one URL:
\* [status, content], status one of "ok", "RequestException".
download_attachment(response) ==
    IF ~JIRA_PERSONAL_ACCESS_TOKEN THEN [ok |-> FALSE, content |-> <<>>]
    ELSE IF response.status = "ok" THEN [ok |-> TRUE, content |-> response.content]
    ELSE [ok |-> FALSE, content |-> <<>>]

\* C21's mutant: the slice keeps the last n items, seq[-n:].
Slice_last(seq, n) ==
    IF n <= 0 \/ n >= Len(seq) THEN seq
    ELSE SubSeq(seq, Len(seq) - n + 1, Len(seq))

\* seq[:n] of Python
Slice(seq, n) ==
    IF n >= 0
    THEN SubSeq(seq, 1, IF n < Len(seq) THEN n ELSE Len(seq))
    ELSE SubSeq(seq, 1, IF Len(seq) + n > 0 THEN Len(seq) + n ELSE 0)

\* [a for a in attachments if is_supported_media(a['mime_type'])]
RECURSIVE FilterMedia(_)
FilterMedia(attachments) ==
    IF attachments = <<>> THEN <<>>
    ELSE (IF is_supported_media(Head(attachments).mime_type)
          THEN <<Head(attachments)>> ELSE <<>>)
         \o FilterMedia(Tail(attachments))

\* C12's mutant: the list is cut to max_files before the MIME filter.
select_media_truncateFirst(attachments, max_files) ==
    [media_attachments |-> FilterMedia(attachments),
     retained |-> FilterMedia(Slice(attachments, max_files))]

\* C26's mutant: the filtered list is not cut before the download loop.
select_media_noTruncate(attachments, max_files) ==
    [media_attachments |-> FilterMedia(attachments),
     retained |-> FilterMedia(attachments)]

\* Lines 470-480: the supported-media attachments (line 471), and what line 480
\* keeps of them for the download loop.
select_media(attachments, max_files) ==
    [media_attachments |-> FilterMedia(attachments),
     retained |-> Slice(FilterMedia(attachments), max_files)]

\* C13's mutant: the zero-media text reports the length of the filtered list.
no_media_found_countsMedia(issue_key, attachments, media_attachments) ==
    TextContent(<<"No images or videos found for issue ", issue_key, ". Found ",
                  ToString(Len(media_attachments)), " other attachment(s).">>)

\* Lines 473-477: the text returned when no attachment is supported media.
no_media_found(issue_key, attachments, media_attachments) ==
    TextContent(<<"No images or videos found for issue ", issue_key, ". Found ",
                  ToString(Len(attachments)), " other attachment(s).">>)

\* C19's mutant: the image is appended before its file_info text.
MediaBlocks_payloadFirst(i, attachment, responses) ==
    LET d == download_attachment(responses[attachment.url])
        mime_type == attachment.mime_type
        file_info == TextContent(<<"## ", ToString(i), ". ", attachment.filename,
                                   "- **Type:** ", mime_type>>)
        media_type == get_attachment_media_type(mime_type)
    IN  IF ~d.ok
        THEN <<TextContent(<<"Failed to download: ", attachment.filename>>)>>
        ELSE IF StartsWithImage(mime_type)
        THEN IF media_type # None
             THEN <<ImageContent(b64encode(d.content), media_type), file_info>>
             ELSE <<file_info, TextContent(<<"Unsupported image format: ", mime_type>>)>>
        ELSE <<file_info,
               TextContent(<<"Video file (download to view): ", attachment.url>>)>>

\* C24's mutant: a video is embedded like an image, under its own MIME type.
MediaBlocks_embedVideo(i, attachment, responses) ==
    LET d == download_attachment(responses[attachment.url])
        mime_type == attachment.mime_type
        file_info == TextContent(<<"## ", ToString(i), ". ", attachment.filename,
                                   "- **Type:** ", mime_type>>)
        media_type == get_attachment_media_type(mime_type)
    IN  IF ~d.ok
        THEN <<TextContent(<<"Failed to download: ", attachment.filename>>)>>
        ELSE IF StartsWithImage(mime_type)
        THEN IF media_type # None
             THEN <<file_info, ImageContent(b64encode(d.content), media_type)>>
             ELSE <<file_info, TextContent(<<"Unsupported image format: ", mime_type>>)>>
        ELSE <<file_info, ImageContent(b64encode(d.content), Lower(mime_type))>>

\* The blocks one retained attachment adds to results (loop body, lines 490-536).
MediaBlocks(i, attachment, responses) ==
    LET d == download_attachment(responses[attachment.url])
        mime_type == attachment.mime_type
        file_info == TextContent(<<"## ", ToString(i), ". ", attachment.filename,
                                   "- **Type:** ", mime_type>>)
        media_type == get_attachment_media_type(mime_type)
    IN  IF ~d.ok
        THEN <<TextContent(<<"Failed to download: ", attachment.filename>>)>>
        ELSE IF StartsWithImage(mime_type)
        THEN IF media_type # None
             THEN <<file_info, ImageContent(b64encode(d.content), media_type)>>
             ELSE <<file_info, TextContent(<<"Unsupported image format: ", mime_type>>)>>
        ELSE <<file_info,
               TextContent(<<"Video file (download to view): ", attachment.url>>)>>

\* C14's mutant: the loop ends at the first failed download (break, not continue).
RECURSIVE MediaLoop_break(_, _, _)
MediaLoop_break(i, media_attachments, responses) ==
    IF i > Len(media_attachments) THEN <<>>
    ELSE IF ~download_attachment(responses[media_attachments[i].url]).ok
    THEN MediaBlocks(i, media_attachments[i], responses)
    ELSE MediaBlocks(i, media_attachments[i], responses)
         \o MediaLoop_break(i + 1, media_attachments, responses)

RECURSIVE MediaLoop(_, _, _)
MediaLoop(i, media_attachments, responses) ==
    IF i > Len(media_attachments) THEN <<>>
    ELSE MediaBlocks(i, media_attachments[i], responses)
         \o MediaLoop(i + 1, media_attachments, responses)

\* The URLs the loop passes to download_attachment (line 497, once in each
\* iteration, before anything depends on the outcome).
MediaDownloads(media_attachments) ==
    [i \in DOMAIN media_attachments |-> media_attachments[i].url]

\* ---------------------------------------------------------------- jira handler

\* What the upstream does during one call_tool:
\*   api         outcome of the provider's REST call: "ok", "empty" (an empty
\*               collection), "api_error" (JIRAError / GitlabError, e.g. entity
\*               not found), "exception" (any other exception: network error,
\*               malformed response)
\*   attachments the issue's attachments, as get_issue_attachments builds them
\*   responses   url -> outcome of requests.get for that url
JIRAErrorMsg == "JiraError HTTP 404"
GitlabErrorMsg == "404: 404 Project Not Found"
UpstreamExceptionMsg == "Connection aborted."

\* get_issue_comments(issue_key), jira_service.py:129-149
get_issue_comments(client, up) ==
    IF client = None THEN Return(<<>>, "none")
    ELSE CASE up.api = "api_error" -> Return(<<>>, "not_found")
           [] up.api = "exception" ->
                Raise("Exception", UpstreamExceptionMsg, "upstream_exception")
           [] up.api = "empty" -> Return(<<>>, "none")
           [] OTHER -> Return(<<"comment">>, "none")

\* get_issue_attachments(issue_key), jira_service.py:152-174
get_issue_attachments(client, up) ==
    IF client = None THEN Return(<<>>, "none")
    ELSE CASE up.api = "api_error" -> Return(<<>>, "not_found")
           [] up.api = "exception" ->
                Raise("Exception", UpstreamExceptionMsg, "upstream_exception")
           [] up.api = "empty" -> Return(<<>>, "none")
           [] OTHER -> Return(up.attachments, "none")

\* C22's mutant: the summary counts the supported attachments before the cut.
media_summary_beforeCut(issue_key, media_attachments, retained) ==
    TextContent(<<"# Media Attachments for ", issue_key, "Found ",
                  ToString(Len(media_attachments)), " image(s)/video(s):">>)

\* Lines 484-487: the summary text, written after line 480 has cut the list.
media_summary(issue_key, media_attachments, retained) ==
    TextContent(<<"# Media Attachments for ", issue_key, "Found ",
                  ToString(Len(retained)), " image(s)/video(s):">>)

\* The get_issue_media branch, jira_service.py:455-538
get_issue_media(arguments, client, up) ==
    LET issue_key == ArgStr(arguments, "issue_key")
        max_files == ArgMaxFiles(arguments)
        fetched == get_issue_attachments(client, up)
        attachments == fetched.ret
        selected == select_media(attachments, max_files)
        media_attachments == selected.media_attachments
        retained == selected.retained
        summary == media_summary(issue_key, media_attachments, retained)
        anyFailed == \E i \in DOMAIN retained :
                        ~download_attachment(up.responses[retained[i].url]).ok
    IN  IF ~TruthyStr(issue_key)
        THEN Return(<<TextContent(<<"Error: issue_key is required">>)>>,
                    "missing_argument")
        ELSE IF fetched.raised THEN fetched
        ELSE IF attachments = <<>>
        THEN Return(<<TextContent(<<"No attachments found for issue ", issue_key>>)>>,
                    fetched.failure)
        ELSE IF \E i \in DOMAIN attachments : attachments[i].mime_type = None
        THEN Raise("AttributeError", "'NoneType' object has no attribute 'lower'",
                   "malformed_response")
        ELSE IF media_attachments = <<>>
        THEN Return(<<no_media_found(issue_key, attachments, media_attachments)>>,
                    "none")
        ELSE [Return(<<summary>> \o MediaLoop(1, retained, up.responses),
                     IF anyFailed THEN "download_failed" ELSE "none")
                EXCEPT !.downloads = MediaDownloads(retained)]

\* The body of the try statement of handle_jira_tool_call, lines 324-541
jira_try_body(name, arguments, client, up) ==
    LET issue_key == ArgStr(arguments, "issue_key")
        jql == ArgStr(arguments, "jql")
        key_required == Return(<<TextContent(<<"Error: issue_key is required">>)>>,
                               "missing_argument")
        no_get == Raise("AttributeError", AttributeErrorMsg, "malformed_arguments")
        comments == get_issue_comments(client, up)
        attachments == get_issue_attachments(client, up)
    IN  CASE name = "get_jira_issue" ->
                IF ~arguments.is_mapping THEN no_get
                ELSE IF ~TruthyStr(issue_key) THEN key_required
                ELSE CASE up.api = "api_error" ->
                            Return(<<TextContent(<<"Error fetching issue ", issue_key,
                                                   ": ", JIRAErrorMsg>>)>>, "not_found")
                       [] up.api = "exception" ->
                            Raise("Exception", UpstreamExceptionMsg, "upstream_exception")
                       [] OTHER ->
                            Return(<<TextContent(<<"# ", issue_key, ": ", "<summary>">>)>>,
                                   "none")
          [] name = "search_jira_issues" ->
                IF ~arguments.is_mapping THEN no_get
                ELSE IF ~TruthyStr(jql)
                THEN Return(<<TextContent(<<"Error: jql query is required">>)>>,
                            "missing_argument")
                ELSE CASE up.api = "api_error" ->
                            Return(<<TextContent(<<"Error searching issues: ",
                                                   JIRAErrorMsg>>)>>, "not_found")
                       [] up.api = "exception" ->
                            Raise("Exception", UpstreamExceptionMsg, "upstream_exception")
                       [] up.api = "empty" ->
                            Return(<<TextContent(<<"No issues found matching query: ",
                                                   jql>>)>>, "none")
                       [] OTHER ->
                            Return(<<TextContent(<<"# Search Results (", "1", " issues)",
                                                   "**Query:** ", jql>>)>>, "none")
          [] name = "get_issue_comments" ->
                IF ~arguments.is_mapping THEN no_get
                ELSE IF ~TruthyStr(issue_key) THEN key_required
                ELSE IF comments.raised THEN comments
                ELSE IF comments.ret = <<>>
                THEN Return(<<TextContent(<<"No comments found for issue ", issue_key>>)>>,
                            comments.failure)
                ELSE Return(<<TextContent(<<"# Comments for ", issue_key, " (",
                                            ToString(Len(comments.ret)), " comments)">>)>>,
                            "none")
          [] name = "get_issue_attachments" ->
                IF ~arguments.is_mapping THEN no_get
                ELSE IF ~TruthyStr(issue_key) THEN key_required
                ELSE IF attachments.raised THEN attachments
                ELSE IF attachments.ret = <<>>
                THEN Return(<<TextContent(<<"No attachments found for issue ",
                                            issue_key>>)>>, attachments.failure)
                ELSE Return(<<TextContent(<<"# Attachments for ", issue_key, " (",
                                            ToString(Len(attachments.ret)), " files)">>)>>,
                            "none")
          [] name = "get_issue_media" ->
                IF ~arguments.is_mapping THEN no_get
                ELSE get_issue_media(arguments, client, up)
          [] OTHER ->
                Return(<<TextContent(<<"Unknown Jira tool: ", name>>)>>, "none")

handle_jira_tool_call(name, arguments, client, up) ==
    LET body == jira_try_body(name, arguments, client, up)
    IN  IF client = None
        THEN Return(<<TextContent(<<"Error: Jira client not initialized. Please check your ",
                                    "JIRA_PERSONAL_ACCESS_TOKEN", ".">>)>>, "none")
        ELSE IF body.raised
        THEN Return(<<TextContent(<<"Error executing ", name, ": ", body.msg>>)>>,
                    body.failure)
        ELSE body

\* ---------------------------------------------------------------- gitlab handler

\* Per tool: the iid argument it requires besides project_id ("" for none),
\* whether project_id is required, its "required" message, the prefix of its
\* GitlabError message and, for a listing tool, its empty-result text.
GitlabBranch(name) ==
    CASE name = "get_gitlab_project" ->
            [known |-> TRUE, project |-> TRUE, iid |-> "", listing |-> FALSE,
             required |-> "Error: project_id is required",
             error |-> "Error fetching project: ", empty |-> ""]
      [] name = "list_gitlab_projects" ->
            [known |-> TRUE, project |-> FALSE, iid |-> "", listing |-> TRUE,
             required |-> "",
             error |-> "Error listing projects: ", empty |-> "No projects found"]
      [] name = "get_merge_request" ->
            [known |-> TRUE, project |-> TRUE, iid |-> "mr_iid", listing |-> FALSE,
             required |-> "Error: project_id and mr_iid are required",
             error |-> "Error fetching merge request: ", empty |-> ""]
      [] name = "list_merge_requests" ->
            [known |-> TRUE, project |-> TRUE, iid |-> "", listing |-> TRUE,
             required |-> "Error: project_id is required",
             error |-> "Error listing merge requests: ",
             empty |-> "No merge requests found with state 'opened'"]
      [] name = "list_pipelines" ->
            [known |-> TRUE, project |-> TRUE, iid |-> "", listing |-> TRUE,
             required |-> "Error: project_id is required",
             error |-> "Error listing pipelines: ", empty |-> "No pipelines found"]
      [] name = "get_pipeline" ->
            [known |-> TRUE, project |-> TRUE, iid |-> "pipeline_id", listing |-> FALSE,
             required |-> "Error: project_id and pipeline_id are required",
             error |-> "Error fetching pipeline: ", empty |-> ""]
      [] name = "list_gitlab_issues" ->
            [known |-> TRUE, project |-> TRUE, iid |-> "", listing |-> TRUE,
             required |-> "Error: project_id is required",
             error |-> "Error listing issues: ",
             empty |-> "No issues found with state 'opened'"]
      [] name = "get_gitlab_issue" ->
            [known |-> TRUE, project |-> TRUE, iid |-> "issue_iid", listing |-> FALSE,
             required |-> "Error: project_id and issue_iid are required",
             error |-> "Error fetching issue: ", empty |-> ""]
      [] OTHER ->
            [known |-> FALSE, project |-> FALSE, iid |-> "", listing |-> FALSE,
             required |-> "", error |-> "", empty |-> ""]

\* The body of the try statement of handle_gitlab_tool_call, lines 355-641
gitlab_try_body(name, arguments, up) ==
    LET b == GitlabBranch(name)
        project_id == ArgStr(arguments, "project_id")
    IN  IF ~b.known
        THEN Return(<<TextContent(<<"Unknown GitLab tool: ", name>>)>>, "none")
        ELSE IF ~arguments.is_mapping
        THEN Raise("AttributeError", AttributeErrorMsg, "malformed_arguments")
        ELSE IF (b.project /\ ~TruthyStr(project_id))
                \/ (b.iid # "" /\ ~TruthyIid(arguments, b.iid))
        THEN Return(<<TextContent(<<b.required>>)>>, "missing_argument")
        ELSE CASE up.api = "api_error" ->
                    Return(<<TextContent(<<b.error, GitlabErrorMsg>>)>>, "not_found")
               [] up.api = "exception" ->
                    Raise("Exception", UpstreamExceptionMsg, "upstream_exception")
               [] up.api = "empty" /\ b.listing ->
                    Return(<<TextContent(<<b.empty>>)>>, "none")
               [] OTHER ->
                    Return(<<TextContent(<<"# ", "<", name, " result>">>)>>, "none")

handle_gitlab_tool_call(name, arguments, client, up) ==
    LET body == gitlab_try_body(name, arguments, up)
    IN  IF ~GITLAB_AVAILABLE
        THEN Return(<<TextContent(<<"Error: python-gitlab library not installed. Run: pip install python-gitlab">>)>>,
                    "none")
        ELSE IF client = None
        THEN Return(<<TextContent(<<"Error: GitLab client not initialized. Please check your ",
                                    "GITLAB_PERSONAL_ACCESS_TOKEN", ".">>)>>, "none")
        ELSE IF body.raised
        THEN Return(<<TextContent(<<"Error: ", body.msg>>)>>, body.failure)
        ELSE body

\* ---------------------------------------------------------------- confluence handler

handle_confluence_tool_call(name, arguments, client) ==
    IF client = None
    THEN Return(<<TextContent(<<"Error: Confluence service not yet implemented or client not initialized.">>)>>,
                "none")
    ELSE Return(<<TextContent(<<"Confluence tool '", name, "' not yet implemented">>)>>,
                "none")

\* ---------------------------------------------------------------- dispatcher

jira_tools ==
    {"get_jira_issue", "search_jira_issues", "get_issue_comments",
     "get_issue_attachments", "get_issue_media"}

\* C27's mutant: the GitLab routing set also holds a Jira name.
gitlab_tools_overlap ==
    {"get_gitlab_project", "list_gitlab_projects", "list_merge_requests",
     "get_merge_request", "list_pipelines", "get_pipeline", "list_gitlab_issues",
     "get_gitlab_issue", "get_issue_comments"}

gitlab_tools ==
    {"get_gitlab_project", "list_gitlab_projects", "list_merge_requests",
     "get_merge_request", "list_pipelines", "get_pipeline", "list_gitlab_issues",
     "get_gitlab_issue"}

confluence_tools ==
    {"get_confluence_page", "search_confluence_pages", "get_space", "list_spaces",
     "get_page_children", "get_page_attachments", "get_page_comments"}

\* One invocation of a provider's handler, as a spy would record it: what it
\* was given and what it returned.
HandlerCall(handler, name, arguments, result) ==
    [handler |-> handler, name |-> name, arguments |-> arguments, result |-> result]

\* What call_tool did: the value it returned (or that it raised), the handler
\* invocations it made, and the failure the provider's work met ("none" if none).
CallOutcome(r, calls) ==
    [ret |-> r.ret, raised |-> r.raised, calls |-> calls, failure |-> r.failure,
     downloads |-> r.downloads]

\* C11's mutant: a call whose upstream failed is forwarded a second time, and
\* the second attempt's result is returned.
jira_route_retry(name, arguments, es, jc, up) ==
    IF ~DictGet(es, "jira", FALSE)
    THEN CallOutcome(
            Return(<<TextContent(<<"Error: Jira service is not enabled. Please check your ",
                                   "JIRA_PERSONAL_ACCESS_TOKEN", ".">>)>>, "none"),
            <<>>)
    ELSE LET result == handle_jira_tool_call(name, arguments, jc, up)
             one == HandlerCall("handle_jira_tool_call", name, arguments, result.ret)
         IN  CallOutcome(result, IF result.failure = "upstream_exception"
                                 THEN <<one, one>> ELSE <<one>>)

\* call_tool, lines 121-130
jira_route(name, arguments, es, jc, up) ==
    IF ~DictGet(es, "jira", FALSE)
    THEN CallOutcome(
            Return(<<TextContent(<<"Error: Jira service is not enabled. Please check your ",
                                   "JIRA_PERSONAL_ACCESS_TOKEN", ".">>)>>, "none"),
            <<>>)
    ELSE LET result == handle_jira_tool_call(name, arguments, jc, up)
         IN  CallOutcome(result, <<HandlerCall("handle_jira_tool_call", name,
                                               arguments, result.ret)>>)

\* C2's mutant: the GitLab branch forwards without looking at the flag.
gitlab_route_unchecked(name, arguments, es, gc, up) ==
    LET result == handle_gitlab_tool_call(name, arguments, gc, up)
    IN  CallOutcome(result, <<HandlerCall("handle_gitlab_tool_call", name,
                                          arguments, result.ret)>>)

\* call_tool, lines 132-141
gitlab_route(name, arguments, es, gc, up) ==
    IF ~DictGet(es, "gitlab", FALSE)
    THEN CallOutcome(
            Return(<<TextContent(<<"Error: GitLab service is not enabled or not yet implemented.">>)>>,
                   "none"),
            <<>>)
    ELSE LET result == handle_gitlab_tool_call(name, arguments, gc, up)
         IN  CallOutcome(result, <<HandlerCall("handle_gitlab_tool_call", name,
                                               arguments, result.ret)>>)

\* call_tool, lines 143-152
confluence_route(name, arguments, es, cc) ==
    IF ~DictGet(es, "confluence", FALSE)
    THEN CallOutcome(
            Return(<<TextContent(<<"Error: Confluence service is not enabled or not yet implemented.">>)>>,
                   "none"),
            <<>>)
    ELSE LET result == handle_confluence_tool_call(name, arguments, cc)
         IN  CallOutcome(result, <<HandlerCall("handle_confluence_tool_call", name,
                                               arguments, result.ret)>>)

\* call_tool, lines 154-158
unknown_tool(name, es) ==
    CallOutcome(
        Return(<<TextContent(<<"Error: Unknown tool '", name, "'. Available services: ">>
                             \o Join(TrueKeys(es), ", "))>>, "none"),
        <<>>)

call_tool(name, arguments, es, jc, gc, cc, up) ==
    IF name \in jira_tools THEN jira_route(name, arguments, es, jc, up)
    ELSE IF name \in gitlab_tools THEN gitlab_route(name, arguments, es, gc, up)
    ELSE IF name \in confluence_tools THEN confluence_route(name, arguments, es, cc)
    ELSE unknown_tool(name, es)

\* ---------------------------------------------------------------- inputs

UnknownNames == {"no_such_tool", "get_page"}

ToolNames == jira_tools \cup gitlab_tools \cup confluence_tools \cup UnknownNames

EmptyArguments == Arguments({}, "", "", 0, "", 0)

JiraArguments ==
    {NotAMapping, EmptyArguments,
     Arguments({"issue_key"}, "X-1", "", 0, "", 0),
     Arguments({"issue_key", "max_files"}, "X-1", "", 1, "", 0),
     Arguments({"jql"}, "", "project = X", 0, "", 0)}

GitlabArguments ==
    {NotAMapping, EmptyArguments,
     Arguments({"project_id"}, "", "", 0, "g/p", 0),
     Arguments({"project_id", "mr_iid", "pipeline_id", "issue_iid"}, "", "", 0, "g/p", 7)}

OtherArguments == {NotAMapping, EmptyArguments}

Attachment(filename, mime_type, url) ==
    [filename |-> filename, mime_type |-> mime_type, url |-> url]

Urls == {"https://jira/a/1", "https://jira/a/2"}

ShotPng == Attachment("shot.png", "image/png", "https://jira/a/1")
ClipMp4 == Attachment("clip.mp4", "video/mp4", "https://jira/a/2")
NotesTxt == Attachment("notes.txt", "text/plain", "https://jira/a/1")

Responses ==
    [Urls -> {[status |-> "ok", content |-> <<77, 97>>],
              [status |-> "RequestException", content |-> <<>>]}]

AllOk == [u \in Urls |-> [status |-> "ok", content |-> <<77, 97>>]]

ApiOutcomes == {"ok", "empty", "api_error", "exception"}

ApiUpstreams ==
    {[api |-> a, attachments |-> <<ShotPng>>, responses |-> AllOk] : a \in ApiOutcomes}

MediaUpstreams ==
    {[api |-> "ok", attachments |-> l, responses |-> r] :
        l \in {<<NotesTxt>>, <<ShotPng, ClipMp4>>}, r \in Responses}

\* The (name, arguments, upstream) triples a client and the upstream can present.
CallInputs ==
    ((jira_tools \ {"get_issue_media"}) \X JiraArguments \X ApiUpstreams)
    \cup ({"get_issue_media"} \X JiraArguments \X (ApiUpstreams \cup MediaUpstreams))
    \cup (gitlab_tools \X GitlabArguments \X ApiUpstreams)
    \cup ((confluence_tools \cup UnknownNames) \X OtherArguments
          \X {[api |-> "ok", attachments |-> <<ShotPng>>, responses |-> AllOk]})

\* ---------------------------------------------------------------- actions

NoInit ==
    [ran |-> FALSE,
     env |-> [jira |-> "ok", gitlab_token |-> FALSE, gitlab |-> "ok",
              confluence_api_token |-> FALSE, confluence_username |-> FALSE],
     attempts |-> <<>>, raised |-> FALSE]

NoList == [valid |-> FALSE, repeat |-> FALSE, tools |-> <<>>]

NoCall ==
    [name |-> "", arguments |-> NotAMapping, ret |-> <<>>, raised |-> FALSE,
     calls |-> <<>>, failure |-> "none"]

NoMedia ==
    [done |-> FALSE, attachments |-> <<>>, responses |-> AllOk, downloads |-> <<>>]

Init ==
    /\ pc \in {"main", "imported"}
    /\ JIRA_PERSONAL_ACCESS_TOKEN \in BOOLEAN
    /\ GITLAB_AVAILABLE \in BOOLEAN
    /\ enabled_services = <<>>
    /\ jira_client = None
    /\ gitlab_client = None
    /\ confluence_client = None
    /\ exit_code = NoExit
    /\ lastOp = "none"
    /\ lastInit = NoInit
    /\ listed = NoList
    /\ lastCall = NoCall
    /\ media = NoMedia

\* The effect of one initialize_services run on the module globals.
RunInitialize(env) ==
    LET r == initialize_services(enabled_services, jira_client, gitlab_client,
                                 confluence_client, env)
    IN  /\ enabled_services' = r.enabled_services
        /\ jira_client' = r.jira_client
        /\ gitlab_client' = r.gitlab_client
        /\ confluence_client' = r.confluence_client
        /\ lastInit' = [ran |-> TRUE, env |-> env, attempts |-> r.attempts,
                        raised |-> r.raised]
        /\ lastOp' = "initialize_services"
        /\ listed' = NoList
        /\ lastCall' = NoCall

\* main(), line 165: initialize_services() inside the try.  An exception would
\* be caught at line 184 and end the process with status 1.
MainInitialize ==
    /\ pc = "main"
    /\ \E env \in InitEnvs :
        /\ RunInitialize(env)
        /\ pc' = IF lastInit'.raised THEN "exited" ELSE "initialized"
        /\ exit_code' = IF lastInit'.raised THEN "1" ELSE exit_code
    /\ UNCHANGED <<media, JIRA_PERSONAL_ACCESS_TOKEN, GITLAB_AVAILABLE>>

\* C9's mutant: the check is all(...) instead of any(...).
MainCheck_all ==
    /\ pc = "initialized"
    /\ IF ~(\A i \in DOMAIN enabled_services : enabled_services[i].v)
       THEN pc' = "exited" /\ exit_code' = "1"
       ELSE pc' = "serving" /\ exit_code' = exit_code
    /\ lastOp' = "main_check"
    /\ UNCHANGED <<media, JIRA_PERSONAL_ACCESS_TOKEN, GITLAB_AVAILABLE, enabled_services,
                   jira_client, gitlab_client, confluence_client, lastInit, listed,
                   lastCall>>

\* main(), lines 168-183: sys.exit(1) when nothing is enabled, else run the server.
MainCheck ==
    /\ pc = "initialized"
    /\ IF ~AnyValue(enabled_services)
       THEN pc' = "exited" /\ exit_code' = "1"
       ELSE pc' = "serving" /\ exit_code' = exit_code
    /\ lastOp' = "main_check"
    /\ UNCHANGED <<media, JIRA_PERSONAL_ACCESS_TOKEN, GITLAB_AVAILABLE, enabled_services,
                   jira_client, gitlab_client, confluence_client, lastInit, listed,
                   lastCall>>

\* main(), lines 177-186: app.run returns (the transport closed) or the
\* transport raises, which line 184 turns into exit status 1.
ServerStop ==
    /\ pc = "serving"
    /\ \E status \in {"0", "1"} : exit_code' = status
    /\ pc' = "exited"
    /\ lastOp' = "server_stop"
    /\ UNCHANGED <<media, JIRA_PERSONAL_ACCESS_TOKEN, GITLAB_AVAILABLE, enabled_services,
                   jira_client, gitlab_client, confluence_client, lastInit, listed,
                   lastCall>>

\* A script that imported the module calls initialize_services (test_tools.py:15).
InitializeServices ==
    /\ pc = "imported"
    /\ \E env \in InitEnvs : RunInitialize(env)
    /\ UNCHANGED <<media, pc, exit_code, JIRA_PERSONAL_ACCESS_TOKEN, GITLAB_AVAILABLE>>

\* C5's mutant: the Jira flag is read with pop, which removes the entry.
ListTools_pop ==
    /\ pc \in {"serving", "imported"}
    /\ listed' = [valid |-> TRUE, repeat |-> listed.valid,
                   tools |-> list_tools(enabled_services)]
    /\ enabled_services' = SelectSeq(enabled_services, LAMBDA e : e.k # "jira")
    /\ lastOp' = "list_tools"
    /\ lastInit' = NoInit
    /\ lastCall' = NoCall
    /\ UNCHANGED <<media, pc, exit_code, JIRA_PERSONAL_ACCESS_TOKEN, GITLAB_AVAILABLE,
                   jira_client, gitlab_client, confluence_client>>

\* list_tools(), called by the transport while serving or by a script.
ListTools ==
    /\ pc \in {"serving", "imported"}
    /\ listed' = [valid |-> TRUE, repeat |-> listed.valid,
                   tools |-> list_tools(enabled_services)]
    /\ lastOp' = "list_tools"
    /\ lastInit' = NoInit
    /\ lastCall' = NoCall
    /\ UNCHANGED <<media, pc, exit_code, JIRA_PERSONAL_ACCESS_TOKEN, GITLAB_AVAILABLE,
                   enabled_services, jira_client, gitlab_client, confluence_client>>

\* C8's mutant: a call whose upstream raised marks Jira as disabled.
CallTool_disableOnFailure ==
    /\ pc \in {"serving", "imported"}
    /\ \E in \in CallInputs :
        LET r == call_tool(in[1], in[2], enabled_services, jira_client,
                           gitlab_client, confluence_client, in[3])
        IN  /\ lastCall' = [name |-> in[1], arguments |-> in[2], ret |-> r.ret,
                         raised |-> r.raised,
                            calls |-> r.calls, failure |-> r.failure]
            /\ enabled_services' =
                    IF r.failure = "upstream_exception" /\ in[1] \in jira_tools
                    THEN DictSet(enabled_services, "jira", FALSE)
                    ELSE enabled_services
    /\ lastOp' = "call_tool"
    /\ lastInit' = NoInit
    /\ UNCHANGED <<media, pc, exit_code, JIRA_PERSONAL_ACCESS_TOKEN, GITLAB_AVAILABLE,
                   jira_client, gitlab_client, confluence_client, listed>>

\* C20's mutant: the transport delivers calls from process start, before
\* main has run initialize_services.
CallTool_beforeInit ==
    /\ pc \in {"main", "initialized", "serving", "imported"}
    /\ \E in \in CallInputs :
        LET r == call_tool(in[1], in[2], enabled_services, jira_client,
                           gitlab_client, confluence_client, in[3])
        IN  lastCall' = [name |-> in[1], arguments |-> in[2], ret |-> r.ret,
                         raised |-> r.raised,
                         calls |-> r.calls, failure |-> r.failure]
    /\ lastOp' = "call_tool"
    /\ lastInit' = NoInit
    /\ UNCHANGED <<media, pc, exit_code, JIRA_PERSONAL_ACCESS_TOKEN, GITLAB_AVAILABLE,
                   enabled_services, jira_client, gitlab_client, confluence_client,
                   listed>>

\* call_tool(name, arguments), called by the transport while serving or by a script.
CallTool ==
    /\ pc \in {"serving", "imported"}
    /\ \E in \in CallInputs :
        LET r == call_tool(in[1], in[2], enabled_services, jira_client,
                           gitlab_client, confluence_client, in[3])
        IN  lastCall' = [name |-> in[1], arguments |-> in[2], ret |-> r.ret,
                         raised |-> r.raised,
                         calls |-> r.calls, failure |-> r.failure]
    /\ lastOp' = "call_tool"
    /\ lastInit' = NoInit
    /\ UNCHANGED <<media, pc, exit_code, JIRA_PERSONAL_ACCESS_TOKEN, GITLAB_AVAILABLE,
                   enabled_services, jira_client, gitlab_client, confluence_client,
                   listed>>

Next ==
    \/ MainInitialize
    \/ MainCheck
    \/ ServerStop
    \/ InitializeServices
    \/ ListTools
    \/ CallTool

Spec == Init /\ [][Next]_vars

\* ---------------------------------------------------------------- media pipeline
\*
\* SpecMedia: one get_issue_media call, made through call_tool while the
\* process serves with Jira enabled, over the attachment lists, max_files
\* values and download outcomes below.  handle_jira_tool_call keeps nothing
\* between calls, so one call from the serving state stands for every call.

MaxAttachments == 3
MaxFilesArg == 2

\* The mimeType values the upstream reports: allow-listed ones, the image/jpg
\* alias, an upper-case spelling, unsupported and malformed ones, and a
\* missing one (None).
MediaMimes ==
    {"image/png", "image/jpg", "IMAGE/PNG", "video/mp4", "text/plain", "png", None}

MediaFileNames == <<"att1", "att2", "att3", "att4", "att5">>

MediaUrls ==
    <<"https://jira/a/1", "https://jira/a/2", "https://jira/a/3",
      "https://jira/a/4", "https://jira/a/5">>

\* response.content for each URL: byte strings of different lengths
MediaContents ==
    <<(<<77, 97>>), (<<77>>), (<<77, 97, 110>>), (<<255, 0, 77, 97>>), (<<0>>)>>

\* A single attachment is drawn with every allow-listed value as well, and
\* with an image type outside the list.
SingleMimes ==
    MediaMimes \cup supported_types \cup {"Video/MP4", "image/bmp", "image/PNG"}

AttachmentLists ==
    UNION {{[i \in 1..n |-> Attachment(MediaFileNames[i], m[i], MediaUrls[i])] :
                m \in [1..n -> IF n = 1 THEN SingleMimes ELSE MediaMimes]} :
           n \in 0..MaxAttachments}

\* spec.md section 6: the filter-before-truncation list and the end-to-end list
ListABCD ==
    <<Attachment("A.png", "image/png", MediaUrls[1]),
      Attachment("B.mp4", "video/mp4", MediaUrls[2]),
      Attachment("C.txt", "text/plain", MediaUrls[3]),
      Attachment("D.png", "image/png", MediaUrls[4])>>

ListShotClip == <<ShotPng, ClipMp4>>

\* requests.get for each URL of the list: ok with the URL's content, or a
\* RequestException; `fails` is the set of positions whose download fails.
MediaResponses(fails) ==
    [u \in {MediaUrls[i] : i \in DOMAIN MediaUrls} |->
        LET i == CHOOSE j \in DOMAIN MediaUrls : MediaUrls[j] = u
        IN  IF i \in fails
            THEN [status |-> "RequestException", content |-> <<>>]
            ELSE [status |-> "ok", content |-> MediaContents[i]]]

MediaArguments ==
    {Arguments({"issue_key"}, "X-1", "", 0, "", 0)}
    \cup {Arguments({"issue_key", "max_files"}, "X-1", "", n, "", 0) :
            n \in (-1)..MaxFilesArg}

ScenarioLists == {ListABCD, ListShotClip}

\* The max_files values a list is called with: the scenario lists also with
\* the default given explicitly.
ArgumentsFor(l) ==
    IF l \in ScenarioLists
    THEN MediaArguments
            \cup {Arguments({"issue_key", "max_files"}, "X-1", "", DefaultMaxFiles, "", 0)}
    ELSE MediaArguments

\* The state main reaches when Jira is the one configured provider:
\* MainInitialize with JiraOnlyEnv, then MainCheck.
JiraOnlyEnv ==
    [jira |-> "ok", gitlab_token |-> FALSE, gitlab |-> "ok",
     confluence_api_token |-> FALSE, confluence_username |-> FALSE]

InitMedia ==
    /\ pc = "serving"
    /\ JIRA_PERSONAL_ACCESS_TOKEN = TRUE
    /\ GITLAB_AVAILABLE = TRUE
    /\ LET r == initialize_services(<<>>, None, None, None, JiraOnlyEnv)
       IN  /\ enabled_services = r.enabled_services
           /\ jira_client = r.jira_client
           /\ gitlab_client = r.gitlab_client
           /\ confluence_client = r.confluence_client
           /\ lastInit = [ran |-> TRUE, env |-> JiraOnlyEnv, attempts |-> r.attempts,
                          raised |-> r.raised]
    /\ exit_code = NoExit
    /\ lastOp = "main_check"
    /\ listed = NoList
    /\ lastCall = NoCall
    /\ media = NoMedia

\* call_tool("get_issue_media", arguments) while serving.
CallMedia ==
    /\ pc = "serving"
    /\ ~media.done
    /\ \E l \in AttachmentLists \cup ScenarioLists :
        \E arguments \in ArgumentsFor(l), fails \in SUBSET (1..Len(l)) :
            LET up == [api |-> "ok", attachments |-> l,
                       responses |-> MediaResponses(fails)]
                r == call_tool("get_issue_media", arguments, enabled_services,
                               jira_client, gitlab_client, confluence_client, up)
            IN  /\ lastCall' = [name |-> "get_issue_media", arguments |-> arguments,
                                ret |-> r.ret, raised |-> r.raised, calls |-> r.calls,
                                failure |-> r.failure]
                /\ media' = [done |-> TRUE, attachments |-> l,
                             responses |-> up.responses, downloads |-> r.downloads]
    /\ lastOp' = "call_tool"
    /\ lastInit' = NoInit
    /\ UNCHANGED <<pc, exit_code, JIRA_PERSONAL_ACCESS_TOKEN, GITLAB_AVAILABLE,
                   enabled_services, jira_client, gitlab_client, confluence_client,
                   listed>>

NextMedia == CallMedia

SpecMedia == InitMedia /\ [][NextMedia]_vars

\* ---------------------------------------------------------------- properties

ServiceIds == <<"jira", "gitlab", "confluence">>

HasEntry(id) == \E i \in DOMAIN enabled_services : enabled_services[i].k = id

Enabled(id) ==
    \E i \in DOMAIN enabled_services :
        enabled_services[i].k = id /\ enabled_services[i].v

Catalog(id) ==
    CASE id = "jira" -> get_jira_tools
      [] id = "gitlab" -> get_gitlab_tools
      [] OTHER -> get_confluence_tools

CatalogNames(id) == {Catalog(id)[i].name : i \in DOMAIN Catalog(id)}

AllCatalogNames == UNION {CatalogNames(ServiceIds[i]) : i \in DOMAIN ServiceIds}

\* The names call_tool routes to a provider.
Routed(id) ==
    CASE id = "jira" -> jira_tools
      [] id = "gitlab" -> gitlab_tools
      [] OTHER -> confluence_tools

HandlerOf(id) ==
    CASE id = "jira" -> "handle_jira_tool_call"
      [] id = "gitlab" -> "handle_gitlab_tool_call"
      [] OTHER -> "handle_confluence_tool_call"

Contains(block, segment) == \E i \in DOMAIN block.text : block.text[i] = segment

OneText(ret) == Len(ret) = 1 /\ ret[1].type = "text"

Called == lastOp = "call_tool"

Ids == {ServiceIds[i] : i \in DOMAIN ServiceIds}

\* C1: for every tool name in no provider's catalog, call_tool returns exactly
\* one Text block, and the block contains the name and the id of every
\* enabled service.
C1_UncataloguedNameIsReported ==
    (Called /\ lastCall.name \notin AllCatalogNames)
        => /\ ~lastCall.raised
           /\ OneText(lastCall.ret)
           /\ Contains(lastCall.ret[1], lastCall.name)
           /\ \A id \in Ids : Enabled(id) => Contains(lastCall.ret[1], id)

\* C2: for every disabled provider and every tool name routed to it, call_tool
\* returns exactly one Text block and invokes no handler.
C2_DisabledProviderNotInvoked ==
    \A id \in Ids :
        (Called /\ lastCall.name \in Routed(id) /\ ~Enabled(id))
            => /\ ~lastCall.raised
               /\ OneText(lastCall.ret)
               /\ lastCall.calls = <<>>

\* A call of a GitLab tool while GitLab is disabled and Jira is enabled.
C2_Witness ==
    /\ Called
    /\ lastCall.name = "get_merge_request"
    /\ ~Enabled("gitlab")
    /\ Enabled("jira")
    /\ OneText(lastCall.ret)

\* The preconditions of a provider's setup, by the names the source gives them
\* (bridge_mcp_server.py:171-173, gitlab_service.py:25).
Preconditions(id) ==
    CASE id = "jira" -> {"JIRA_URL", "JIRA_PERSONAL_ACCESS_TOKEN"}
      [] id = "gitlab" -> {"GITLAB_URL", "GITLAB_PERSONAL_ACCESS_TOKEN", "python-gitlab"}
      [] OTHER -> {"CONFLUENCE_URL", "CONFLUENCE_API_TOKEN", "CONFLUENCE_USERNAME"}

\* C3: when the owning provider is disabled, the single Text block names a
\* specific missing precondition of that provider, for every provider.
C3_DisabledMessageNamesPrecondition ==
    \A id \in Ids :
        (Called /\ lastCall.name \in Routed(id) /\ ~Enabled(id))
            => /\ OneText(lastCall.ret)
               /\ \E p \in Preconditions(id) : Contains(lastCall.ret[1], p)

\* The concatenation, in the order of ids, of the catalogs of the enabled ones.
RECURSIVE EnabledCatalogs(_)
EnabledCatalogs(ids) ==
    IF ids = <<>> THEN <<>>
    ELSE (IF Enabled(Head(ids)) THEN Catalog(Head(ids)) ELSE <<>>)
         \o EnabledCatalogs(Tail(ids))

\* C4: list_tools returns exactly the catalogs of the enabled providers,
\* concatenated in the order jira, gitlab, confluence; a disabled provider
\* contributes no entry.
C4_ListIsEnabledCatalogsInOrder ==
    lastOp = "list_tools"
        => /\ listed.tools = EnabledCatalogs(ServiceIds)
           /\ \A id \in Ids : ~Enabled(id) =>
                \A i \in DOMAIN listed.tools : listed.tools[i].name \notin CatalogNames(id)

\* list_tools after GitLab went from enabled (its client exists) to disabled,
\* with Jira enabled.
C4_Witness ==
    /\ lastOp = "list_tools"
    /\ Enabled("jira")
    /\ HasEntry("gitlab") /\ ~Enabled("gitlab")
    /\ gitlab_client # None
    /\ listed.tools = get_jira_tools

\* C5: list_tools changes neither enabled_services nor any client, and a
\* list_tools call returns what the previous one returned when no
\* initialize_services ran in between.
C5_ListToolsIdempotentNoEffect ==
    [][lastOp' = "list_tools"
        => /\ enabled_services' = enabled_services
           /\ jira_client' = jira_client
           /\ gitlab_client' = gitlab_client
           /\ confluence_client' = confluence_client
           /\ (listed.valid => listed'.tools = listed.tools)]_vars

\* A repeated list_tools call that returned a non-empty list.
C5_Witness ==
    /\ lastOp = "list_tools"
    /\ listed.repeat
    /\ Len(listed.tools) > 0

\* The failures of a provider's work that C6 lists.
C6Failures ==
    {"upstream_exception", "malformed_response", "not_found", "malformed_arguments"}

\* C6: when a call is routed to an enabled provider and the provider's work
\* fails, call_tool returns a Text block that contains the tool name, and no
\* exception propagates.
C6_FailureIsTextWithToolName ==
    (Called /\ lastCall.calls # <<>> /\ lastCall.failure \in C6Failures)
        => /\ ~lastCall.raised
           /\ OneText(lastCall.ret)
           /\ Contains(lastCall.ret[1], lastCall.name)

\* Whether a provider's setup succeeds in environment env.
SetupSucceeds(id, env) ==
    CASE id = "jira" -> JIRA_PERSONAL_ACCESS_TOKEN /\ env.jira = "ok"
      [] id = "gitlab" -> GITLAB_AVAILABLE /\ env.gitlab_token /\ env.gitlab = "ok"
      [] OTHER -> FALSE

\* C7: initialize_services never raises, attempts jira, gitlab and confluence
\* in that order whatever each setup's outcome, and leaves for each id an
\* entry that is true exactly when that provider's setup succeeded.
C7_InitializeRecordsEveryOutcome ==
    lastInit.ran
        => /\ ~lastInit.raised
           /\ lastInit.attempts = ServiceIds
           /\ Len(enabled_services) = Len(ServiceIds)
           /\ \A id \in Ids :
                HasEntry(id) /\ (Enabled(id) <=> SetupSucceeds(id, lastInit.env))

\* Jira's probe met an unexpected error and GitLab's setup still succeeded.
C7_Witness ==
    /\ lastInit.ran
    /\ JIRA_PERSONAL_ACCESS_TOKEN
    /\ lastInit.env.jira = "Exception"
    /\ ~Enabled("jira")
    /\ Enabled("gitlab")
    /\ HasEntry("confluence")

\* C8: once initialize_services has returned, list_tools and call_tool change
\* no entry of enabled_services, and while main serves nothing writes it.
C8_FlagsImmutableAfterInit ==
    [][(lastOp' \in {"list_tools", "call_tool"} \/ pc = "serving")
        => enabled_services' = enabled_services]_vars

\* While main serves, a call reached a handler whose upstream raised.
C8_Witness ==
    /\ pc = "serving"
    /\ Called
    /\ lastCall.calls # <<>>
    /\ lastCall.failure = "upstream_exception"
    /\ Enabled("jira")

\* The process was started through main (not imported by a script).
RunsMain == pc # "imported"

\* C9: when no provider is enabled after initialize_services, main exits with
\* a failure status and no list_tools or call_tool is ever served; when at
\* least one is enabled, main goes on to run the server.
C9_NoProviderIsFatal ==
    RunsMain =>
        /\ (lastOp = "main_check" /\ ~(\E id \in Ids : Enabled(id)))
                => pc = "exited" /\ exit_code = "1"
        /\ (lastOp = "main_check" /\ (\E id \in Ids : Enabled(id)))
                => pc = "serving" /\ exit_code = NoExit
        /\ (lastOp \in {"list_tools", "call_tool", "server_stop"} \/ pc = "serving")
                => \E id \in Ids : Enabled(id)

\* main exited with status 1 because a set token did not pass the probe.
C9_Witness ==
    /\ RunsMain
    /\ lastOp = "main_check"
    /\ pc = "exited"
    /\ exit_code = "1"
    /\ JIRA_PERSONAL_ACCESS_TOKEN
    /\ \A id \in Ids : HasEntry(id) /\ ~Enabled(id)

\* The first segment of call_tool's service-disabled block for a provider.
ServiceDisabledText(id) ==
    CASE id = "jira" -> "Error: Jira service is not enabled. Please check your "
      [] id = "gitlab" -> "Error: GitLab service is not enabled or not yet implemented."
      [] OTHER -> "Error: Confluence service is not enabled or not yet implemented."

\* C10: a provider with no entry in enabled_services is treated as disabled:
\* list_tools returns none of its tools, and call_tool for a name routed to it
\* returns the service-disabled block without invoking a handler.
C10_MissingEntryIsDisabled ==
    \A id \in Ids :
        ~HasEntry(id) =>
            /\ lastOp = "list_tools" =>
                \A i \in DOMAIN listed.tools : listed.tools[i].name \notin CatalogNames(id)
            /\ (Called /\ lastCall.name \in Routed(id)) =>
                /\ OneText(lastCall.ret)
                /\ lastCall.ret[1].text[1] = ServiceDisabledText(id)
                /\ lastCall.calls = <<>>

\* A Jira tool called before any initialize_services, with the token set.
C10_Witness ==
    /\ enabled_services = <<>>
    /\ JIRA_PERSONAL_ACCESS_TOKEN
    /\ Called
    /\ lastCall.name = "get_jira_issue"
    /\ lastCall.calls = <<>>

\* C11: for every call_tool whose tool name is routed to an enabled provider,
\* the provider's handler is invoked exactly once, with the same name and
\* arguments, and call_tool returns what that invocation returned.
C11_ForwardedOnceResultUnchanged ==
    \A id \in Ids :
        (Called /\ lastCall.name \in Routed(id) /\ Enabled(id))
            => lastCall.calls = <<HandlerCall(HandlerOf(id), lastCall.name,
                                              lastCall.arguments, lastCall.ret)>>

\* A forwarded call whose upstream raised: the handler ran once all the same.
C11_Witness ==
    /\ Called
    /\ lastCall.name = "get_issue_media"
    /\ Enabled("jira")
    /\ lastCall.failure = "upstream_exception"
    /\ Len(lastCall.calls) = 1
    /\ lastCall.calls[1].result = lastCall.ret
    /\ lastCall.calls[1].arguments = lastCall.arguments

\* ---------------------------------------------------------------- media properties
\* (stated on the get_issue_media call of SpecMedia)

MediaCalled == media.done

Att == media.attachments

MaxFiles == ArgMaxFiles(lastCall.arguments)

Result == lastCall.ret

\* Every attachment carries a MIME type string.
MimesPresent == \A i \in DOMAIN Att : Att[i].mime_type # None

Supported == SelectSeq(Att, LAMBDA a : is_supported_media(a.mime_type))

FirstN(seq, n) == SubSeq(seq, 1, IF n < Len(seq) THEN n ELSE Len(seq))

FileNamesOf(seq) == [i \in DOMAIN seq |-> seq[i].filename]

IsFailedText(b) ==
    b.type = "text" /\ Len(b.text) = 2 /\ b.text[1] = "Failed to download: "

IsFileInfo(b) == b.type = "text" /\ Len(b.text) >= 4 /\ b.text[1] = "## "

FileOf(b) == IF IsFailedText(b) THEN b.text[2] ELSE b.text[4]

IsPayload(b) ==
    \/ b.type = "image"
    \/ /\ b.type = "text"
       /\ Len(b.text) = 2
       /\ b.text[1] \in {"Video file (download to view): ", "Unsupported image format: "}

\* The attachments a result speaks of, in the order of their blocks.
RECURSIVE ResultFiles(_)
ResultFiles(ret) ==
    IF ret = <<>> THEN <<>>
    ELSE (IF IsFailedText(Head(ret)) \/ IsFileInfo(Head(ret))
          THEN <<FileOf(Head(ret))>> ELSE <<>>)
         \o ResultFiles(Tail(ret))

Admitted(i) ==
    \E k \in DOMAIN ResultFiles(Result) : ResultFiles(Result)[k] = Att[i].filename

NotTruncated == MaxFiles >= Len(Att)

Requested == media.downloads

AttOfUrl(u) == Att[CHOOSE i \in DOMAIN Att : Att[i].url = u]

AttNamed(f) == Att[CHOOSE i \in DOMAIN Att : Att[i].filename = f]

Fails(u) == media.responses[u].status # "ok"

\* Where the blocks of the k-th requested attachment start in the result.
RECURSIVE Offset(_)
Offset(k) ==
    IF k = 1 THEN 2
    ELSE Offset(k - 1) + (IF Fails(Requested[k - 1]) THEN 1 ELSE 2)

RECURSIVE b64decode(_)
b64decode(data) ==
    IF Len(data) < 4 THEN <<>>
    ELSE (IF data[3] = Pad
          THEN <<data[1] * 4 + data[2] \div 16>>
          ELSE IF data[4] = Pad
          THEN <<data[1] * 4 + data[2] \div 16, (data[2] % 16) * 16 + data[3] \div 4>>
          ELSE <<data[1] * 4 + data[2] \div 16, (data[2] % 16) * 16 + data[3] \div 4,
                 (data[3] % 4) * 64 + data[4]>>)
         \o b64decode(SubSeq(data, 5, Len(data)))

\* C12: the MIME filter is applied before the max_files truncation: for every
\* attachment list and max_files (a count, so >= 0), the result speaks of
\* exactly the first max_files supported-media attachments, in order; for
\* [A(image/png), B(video/mp4), C(text/plain), D(image/png)] and max_files = 2
\* these are A and B.
C12_FilterPrecedesTruncation ==
    (MediaCalled /\ MimesPresent /\ MaxFiles >= 0)
        => /\ ResultFiles(Result) = FileNamesOf(FirstN(Supported, MaxFiles))
           /\ (Att = ListABCD /\ MaxFiles = 2)
                => ResultFiles(Result) = <<"A.png", "B.mp4">>

\* An unsupported attachment stands before two supported ones and max_files
\* is 2: both supported ones are kept.
C12_Witness ==
    /\ MediaCalled
    /\ Len(Att) = 3
    /\ MaxFiles = 2
    /\ Att[1].mime_type = "text/plain"
    /\ ResultFiles(Result) = <<Att[2].filename, Att[3].filename>>

\* C13: get_issue_media returns exactly one Text block when the issue has no
\* attachments (the block says no attachments were found for the issue) and
\* when it has N >= 1 attachments none of which is supported media (the block
\* says no media was found and gives N); in neither case is a download
\* requested.
C13_BoundaryCasesOneText ==
    (MediaCalled /\ MimesPresent)
        => /\ Att = <<>>
                => /\ OneText(Result)
                   /\ Result[1].text[1] = "No attachments found for issue "
                   /\ Contains(Result[1], ArgStr(lastCall.arguments, "issue_key"))
                   /\ Requested = <<>>
           /\ (Att # <<>> /\ Supported = <<>>)
                => /\ OneText(Result)
                   /\ Result[1].text[1] = "No images or videos found for issue "
                   /\ Contains(Result[1], ArgStr(lastCall.arguments, "issue_key"))
                   /\ Contains(Result[1], ToString(Len(Att)))
                   /\ Requested = <<>>

C13_Witness ==
    /\ MediaCalled
    /\ MimesPresent
    /\ Len(Att) = 2
    /\ Supported = <<>>
    /\ OneText(Result)
    /\ Contains(Result[1], "2")
    /\ Requested = <<>>

\* C14: a download failure is isolated to its attachment: whatever the
\* pattern of download outcomes over the requested attachments, call_tool
\* raises nothing, each failed attachment has exactly the one block
\* "Failed to download: <filename>" at its position, and each later
\* attachment still has its blocks; with two images, the first download
\* failing and the second succeeding, the result is the summary, the failure
\* Text of the first, then the Text and Binary of the second.
C14_DownloadFailureIsolated ==
    (MediaCalled /\ Requested # <<>>)
        => /\ ~lastCall.raised
           /\ Len(Result) = Offset(Len(Requested) + 1) - 1
           /\ \A k \in DOMAIN Requested :
                IF Fails(Requested[k])
                THEN Result[Offset(k)]
                        = TextContent(<<"Failed to download: ",
                                        AttOfUrl(Requested[k]).filename>>)
                ELSE /\ IsFileInfo(Result[Offset(k)])
                     /\ FileOf(Result[Offset(k)]) = AttOfUrl(Requested[k]).filename
                     /\ IsPayload(Result[Offset(k) + 1])
           /\ (/\ Len(Att) = 2
               /\ Att[1].mime_type = "image/png" /\ Att[2].mime_type = "image/png"
               /\ MaxFiles >= 2
               /\ Fails(Att[1].url) /\ ~Fails(Att[2].url))
                => /\ Len(Result) = 4
                   /\ Result[2] = TextContent(<<"Failed to download: ", Att[1].filename>>)
                   /\ IsFileInfo(Result[3]) /\ FileOf(Result[3]) = Att[2].filename
                   /\ Result[4] = ImageContent(<<19, 16, Pad, Pad>>, "image/png")

\* Three attachments requested, the first download fails, the later ones do not.
C14_Witness ==
    /\ MediaCalled
    /\ Len(Requested) = 3
    /\ Fails(Requested[1]) /\ ~Fails(Requested[2]) /\ ~Fails(Requested[3])
    /\ Len(Result) = 6
    /\ IsFailedText(Result[2])

\* C15: for attachments [shot.png (image/png, bytes b1), clip.mp4 (video/mp4)],
\* max_files = 10 and both downloads succeeding, the result is exactly five
\* blocks: the summary Text saying 2 were found, the Text of shot.png, the
\* Binary (image/png, base64 of b1), the Text of clip.mp4, and a Text holding
\* clip.mp4's source URL.  b1 is the two bytes "Ma", whose base64 is "TWE=".
C15_EndToEndScenario ==
    (/\ MediaCalled
     /\ Att = ListShotClip
     /\ "max_files" \in lastCall.arguments.keys /\ MaxFiles = 10
     /\ ~Fails(ShotPng.url) /\ ~Fails(ClipMp4.url))
        => /\ Len(Result) = 5
           /\ Result[1].type = "text"
           /\ Contains(Result[1], "Found ") /\ Contains(Result[1], "2")
           /\ Result[2].type = "text" /\ Contains(Result[2], "shot.png")
           /\ Result[3] = ImageContent(<<19, 22, 4, Pad>>, "image/png")
           /\ Result[4].type = "text" /\ Contains(Result[4], "clip.mp4")
           /\ Result[5].type = "text" /\ Contains(Result[5], ClipMp4.url)
           /\ ~Contains(Result[5], "clip.mp4")

C15_Witness ==
    /\ MediaCalled
    /\ Att = ListShotClip
    /\ "max_files" \in lastCall.arguments.keys /\ MaxFiles = 10
    /\ ~Fails(ShotPng.url) /\ ~Fails(ClipMp4.url)
    /\ Len(Result) = 5
    /\ Result[3].type = "image"

\* C16: for every Binary block of a get_issue_media result, base64-decoding
\* its payload gives exactly the bytes the downloader returned for the
\* attachment that the Text block before it names.
C16_BinaryPayloadIsOwnBytes ==
    MediaCalled
        => \A k \in DOMAIN Result :
            Result[k].type = "image"
                => /\ k > 1
                   /\ IsFileInfo(Result[k - 1])
                   /\ \E i \in DOMAIN Att :
                        /\ Att[i].filename = FileOf(Result[k - 1])
                        /\ ~Fails(Att[i].url)
                        /\ b64decode(Result[k].data) = media.responses[Att[i].url].content

\* Two Binary blocks in one result, carrying different bytes.
C16_Witness ==
    /\ MediaCalled
    /\ \E j, k \in DOMAIN Result :
        /\ Result[j].type = "image" /\ Result[k].type = "image"
        /\ b64decode(Result[j].data) # b64decode(Result[k].data)
        /\ Len(b64decode(Result[j].data)) = 1

NineTypes ==
    {"image/png", "image/jpeg", "image/gif", "image/webp", "image/svg+xml",
     "video/mp4", "video/quicktime", "video/x-msvideo", "video/webm"}

\* C17 as the claim states it: an attachment is admitted to the media result
\* if and only if its MIME type string is exactly one of the nine allow-listed
\* values (in a call that truncates nothing).
C17_AdmittedIffExactlyNine ==
    (MediaCalled /\ MimesPresent /\ NotTruncated)
        => \A i \in DOMAIN Att : Admitted(i) <=> Att[i].mime_type \in NineTypes

\* C17, amended: an attachment is admitted to the media result if and only if
\* its MIME type string, lower-cased, is one of the nine allow-listed values
\* or image/jpg (in a call where every attachment has a MIME type string and
\* nothing is truncated).
C17_AdmittedIffLowercaseInTen ==
    (MediaCalled /\ MimesPresent /\ NotTruncated)
        => \A i \in DOMAIN Att :
            Admitted(i) <=> Lower(Att[i].mime_type) \in NineTypes \cup {"image/jpg"}

\* image/jpg and an upper-case spelling are admitted, a malformed string is not.
C17_Witness ==
    /\ MediaCalled /\ MimesPresent /\ NotTruncated
    /\ Len(Att) = 3
    /\ Att[1].mime_type = "image/jpg" /\ Admitted(1)
    /\ Att[2].mime_type = "IMAGE/PNG" /\ Admitted(2)
    /\ Att[3].mime_type = "png" /\ ~Admitted(3)

\* C18: an attachment whose MIME type is missing is treated as not supported
\* at the level of that attachment: the supported attachments of the issue
\* are still admitted, and when nothing is supported the zero-supported-media
\* Text block is returned.
C18_MissingMimeIsJustUnsupported ==
    (MediaCalled /\ ~MimesPresent)
        => /\ Supported = <<>>
                => /\ OneText(Result)
                   /\ Result[1].text[1] = "No images or videos found for issue "
           /\ NotTruncated
                => \A i \in DOMAIN Att :
                        is_supported_media(Att[i].mime_type) => Admitted(i)

\* C19: the blocks follow the order of the requested attachments; every
\* requested attachment has at least one block, a failed download the
\* "Failed to download" Text; and each Binary, link or fallback block comes
\* immediately after the informational Text of the same attachment.
C19_BlockOrderFollowsRetained ==
    (MediaCalled /\ Requested # <<>>)
        => /\ ResultFiles(Result)
                = [k \in DOMAIN Requested |-> AttOfUrl(Requested[k]).filename]
           /\ \A k \in DOMAIN Requested :
                Fails(Requested[k])
                    => \E j \in DOMAIN Result :
                        /\ IsFailedText(Result[j])
                        /\ FileOf(Result[j]) = AttOfUrl(Requested[k]).filename
           /\ \A k \in DOMAIN Result :
                /\ IsFileInfo(Result[k]) => (k < Len(Result) /\ IsPayload(Result[k + 1]))
                /\ IsPayload(Result[k])
                    => /\ k > 1
                       /\ IsFileInfo(Result[k - 1])
                       /\ LET a == AttNamed(FileOf(Result[k - 1]))
                          IN  CASE Result[k].type = "image" ->
                                    b64decode(Result[k].data)
                                        = media.responses[a.url].content
                                [] Result[k].text[1] = "Video file (download to view): " ->
                                    Result[k].text[2] = a.url
                                [] OTHER -> Result[k].text[2] = a.mime_type

\* A failed download between an image and a video.
C19_Witness ==
    /\ MediaCalled
    /\ Len(Requested) = 3
    /\ ~Fails(Requested[1]) /\ Fails(Requested[2]) /\ ~Fails(Requested[3])
    /\ Len(Result) = 6
    /\ Result[3].type = "image"
    /\ IsFailedText(Result[4])
    /\ Result[6].type = "text" /\ IsPayload(Result[6])

\* C20: in every execution of main, a list_tools or call_tool starts only
\* after initialize_services has recorded all three flags, and while it runs
\* the registry is not written.
C20_RegistryWrittenBeforeServing ==
    [][(RunsMain /\ lastOp' \in {"list_tools", "call_tool"})
            => /\ \A id \in Ids : HasEntry(id)
               /\ pc = "serving"
               /\ enabled_services' = enabled_services]_vars

C20_Witness ==
    /\ RunsMain
    /\ pc = "serving"
    /\ lastOp = "call_tool"
    /\ lastCall.calls # <<>>
    /\ \A id \in Ids : HasEntry(id)

\* C21: truncation is a prefix operation: for every attachment list and every
\* max_files >= 0, the attachments get_issue_media processes are exactly the
\* first min(max_files, number of supported attachments) supported
\* attachments, in upstream order.
C21_TruncationIsPrefix ==
    (MediaCalled /\ MimesPresent /\ MaxFiles >= 0)
        => LET processed == ResultFiles(Result)
               n == IF MaxFiles < Len(Supported) THEN MaxFiles ELSE Len(Supported)
           IN  /\ Len(processed) = n
               /\ \A k \in 1..n : processed[k] = Supported[k].filename

\* Three supported attachments cut to the first two.
C21_Witness ==
    /\ MediaCalled
    /\ MimesPresent
    /\ Len(Supported) = 3
    /\ MaxFiles = 2
    /\ ResultFiles(Result) = <<Att[1].filename, Att[2].filename>>

IsSummary(b) ==
    b.type = "text" /\ Len(b.text) = 5 /\ b.text[1] = "# Media Attachments for "

\* C22: whenever a supported attachment exists, the first block of the result
\* is the one summary Text, and the count it states is the number of
\* attachments retained after truncation (those the result goes on to
\* process), whatever the number before truncation or of successful downloads.
C22_SummaryCountsRetained ==
    (MediaCalled /\ MimesPresent /\ Supported # <<>>)
        => /\ Result # <<>>
           /\ IsSummary(Result[1])
           /\ \A k \in DOMAIN Result : IsSummary(Result[k]) => k = 1
           /\ Result[1].text[4] = ToString(Len(ResultFiles(Result)))
           /\ MaxFiles >= 0
                => Result[1].text[4]
                        = ToString(IF MaxFiles < Len(Supported)
                                   THEN MaxFiles ELSE Len(Supported))

\* Three supported attachments, two retained, one of the two downloads fails:
\* the summary says 2.
C22_Witness ==
    /\ MediaCalled
    /\ MimesPresent
    /\ Len(Supported) = 3
    /\ MaxFiles = 2
    /\ Fails(Att[1].url) /\ ~Fails(Att[2].url)
    /\ IsSummary(Result[1])
    /\ Result[1].text[4] = "2"

ImageTypes ==
    {"image/png", "image/jpeg", "image/jpg", "image/gif", "image/webp",
     "image/svg+xml"}

VideoTypes == {"video/mp4", "video/quicktime", "video/x-msvideo", "video/webm"}

Canonical(mime_type) ==
    IF Lower(mime_type) = "image/jpg" THEN "image/jpeg" ELSE Lower(mime_type)

\* C23: every requested attachment that the filter admitted as an image type
\* and whose download succeeded has its metadata Text followed by a Binary
\* block carrying the canonical MIME type of that image type (never a video
\* download link).
C23_AdmittedImageYieldsBinary ==
    (MediaCalled /\ Requested # <<>>)
        => \A k \in DOMAIN Requested :
            LET a == AttOfUrl(Requested[k])
            IN  (Lower(a.mime_type) \in ImageTypes /\ ~Fails(a.url))
                    => /\ IsFileInfo(Result[Offset(k)])
                       /\ FileOf(Result[Offset(k)]) = a.filename
                       /\ Result[Offset(k) + 1].type = "image"
                       /\ Result[Offset(k) + 1].mimeType = Canonical(a.mime_type)

\* C24: every requested attachment of a video type whose download succeeded
\* has its metadata Text followed by a Text block holding the attachment's
\* source URL, and no Binary block; a Binary block follows only the metadata
\* Text of an image attachment.
C24_VideoYieldsLinkOnly ==
    (MediaCalled /\ Requested # <<>>)
        => /\ \A k \in DOMAIN Requested :
                LET a == AttOfUrl(Requested[k])
                IN  (Lower(a.mime_type) \in VideoTypes /\ ~Fails(a.url))
                        => /\ IsFileInfo(Result[Offset(k)])
                           /\ FileOf(Result[Offset(k)]) = a.filename
                           /\ Result[Offset(k) + 1].type = "text"
                           /\ Contains(Result[Offset(k) + 1], a.url)
           /\ \A j \in DOMAIN Result :
                Result[j].type = "image"
                    => /\ j > 1
                       /\ IsFileInfo(Result[j - 1])
                       /\ Lower(AttNamed(FileOf(Result[j - 1])).mime_type) \in ImageTypes

\* An image and a video in one result: Binary for the first, link for the second.
C24_Witness ==
    /\ MediaCalled
    /\ Len(Requested) = 2
    /\ Att[1].mime_type = "image/png" /\ Att[2].mime_type = "video/mp4"
    /\ Len(Result) = 5
    /\ Result[3].type = "image"
    /\ Result[5].type = "text" /\ Contains(Result[5], Att[2].url)

\* C25: no attachment list and no download outcome gives a get_issue_media
\* result that contains the "Unsupported image format" block.
C25_FallbackUnreachable ==
    MediaCalled
        => \A k \in DOMAIN Result :
            ~(/\ Result[k].type = "text"
              /\ Result[k].text # <<>>
              /\ Result[k].text[1] = "Unsupported image format: ")

\* The alias image/jpg passed the filter, was downloaded, and took the image
\* branch: it is encoded as image/jpeg.
C25_Witness ==
    /\ MediaCalled
    /\ \E i \in DOMAIN Att :
        /\ Att[i].mime_type = "image/jpg"
        /\ ~Fails(Att[i].url)
        /\ \E k \in DOMAIN Result :
            /\ IsFileInfo(Result[k]) /\ FileOf(Result[k]) = Att[i].filename
            /\ k < Len(Result)
            /\ Result[k + 1].type = "image" /\ Result[k + 1].mimeType = "image/jpeg"

\* C26: in one get_issue_media call the downloader is called exactly once for
\* each retained attachment, in retained order, and for no attachment the MIME
\* filter or the truncation excluded, whatever downloads fail.
C26_DownloadsOnlyOnRetained ==
    MediaCalled
        => /\ \A k \in DOMAIN Requested : \E i \in DOMAIN Att : Att[i].url = Requested[k]
           /\ \A j, k \in DOMAIN Requested : Requested[j] = Requested[k] => j = k
           /\ \A k \in DOMAIN Requested :
                is_supported_media(AttOfUrl(Requested[k]).mime_type)
           /\ [k \in DOMAIN Requested |-> AttOfUrl(Requested[k]).filename]
                = ResultFiles(Result)
           /\ (MimesPresent /\ MaxFiles >= 0)
                => Requested
                    = [k \in DOMAIN FirstN(Supported, MaxFiles) |->
                            FirstN(Supported, MaxFiles)[k].url]

\* Three supported attachments, max_files = 1, and the one download fails:
\* nothing else is requested in its place.
C26_Witness ==
    /\ MediaCalled
    /\ MimesPresent
    /\ Len(Supported) = 3
    /\ MaxFiles = 1
    /\ Requested = <<Att[1].url>>
    /\ Fails(Att[1].url)

\* C27: the three name sets call_tool routes on are pairwise disjoint and no
\* provider's catalog contains a name routed to another provider, so a
\* forwarded call goes to the handler of every provider whose set holds its name.
C27_RoutingSetsDisjoint ==
    /\ jira_tools \cap gitlab_tools = {}
    /\ jira_tools \cap confluence_tools = {}
    /\ gitlab_tools \cap confluence_tools = {}
    /\ \A id, other \in Ids :
        id # other => CatalogNames(id) \cap Routed(other) = {}
    /\ (Called /\ lastCall.calls # <<>>)
            => \A id \in Ids :
                lastCall.name \in Routed(id)
                    => lastCall.calls[1].handler = HandlerOf(id)

\* A call forwarded to the provider tested second.
C27_Witness ==
    /\ Called
    /\ lastCall.name = "get_gitlab_issue"
    /\ Len(lastCall.calls) = 1
    /\ lastCall.calls[1].handler = "handle_gitlab_tool_call"

ListedNames == {listed.tools[i].name : i \in DOMAIN listed.tools}

\* C28: a call_tool naming a tool of the current list_tools result is forwarded
\* to the handler of the provider that listed it, and its result is neither
\* the "Unknown tool" block nor a "service is not enabled" block.
C28_ListedToolIsDispatchable ==
    (Called /\ listed.valid /\ lastCall.name \in ListedNames)
        => /\ Len(lastCall.calls) = 1
           /\ \E id \in Ids :
                /\ lastCall.name \in CatalogNames(id)
                /\ Enabled(id)
                /\ lastCall.calls[1].handler = HandlerOf(id)
           /\ \A k \in DOMAIN lastCall.ret :
                lastCall.ret[k].text # <<>>
                    => lastCall.ret[k].text[1]
                            \notin {"Error: Unknown tool '"}
                                   \cup {ServiceDisabledText(id) : id \in Ids}

\* list_tools listed GitLab's tools and one of them was then called.
C28_Witness ==
    /\ Called
    /\ listed.valid
    /\ lastCall.name = "get_gitlab_issue"
    /\ lastCall.name \in ListedNames
    /\ Len(lastCall.calls) = 1

ClientNotInitializedTexts ==
    {"Error: Jira client not initialized. Please check your ",
     "Error: GitLab client not initialized. Please check your "}

\* C29: after any sequence of initialize_services runs, an enabled jira
\* (gitlab) flag implies a non-null jira (gitlab) client, so a forwarded call
\* never ends in the handler's "client not initialized" result.
C29_EnabledImpliesClient ==
    /\ Enabled("jira") => jira_client # None
    /\ Enabled("gitlab") => gitlab_client # None
    /\ (Called /\ lastCall.calls # <<>>)
            => \A k \in DOMAIN lastCall.ret :
                lastCall.ret[k].text # <<>>
                    => lastCall.ret[k].text[1] \notin ClientNotInitializedTexts

\* A later run failed for GitLab after an earlier one had succeeded, and a
\* Jira call was then forwarded.
C29_Witness ==
    /\ pc = "imported"
    /\ Enabled("jira")
    /\ HasEntry("gitlab") /\ ~Enabled("gitlab")
    /\ gitlab_client # None
    /\ Called
    /\ lastCall.name = "get_jira_issue"
    /\ Len(lastCall.calls) = 1

\* C30: for any integer max_files, the number of attachments for which a
\* download is attempted does not exceed max(0, max_files).
C30_DownloadsAtMostMaxFiles ==
    MediaCalled => Len(Requested) <= (IF MaxFiles > 0 THEN MaxFiles ELSE 0)

====
